---- MODULE Spec2Model ----
(***************************************************************************)
(* Model of app.py, the Streamlit CO2 emission predictor.                  *)
(*                                                                         *)
(* One server process holds the st.cache_resource entry of load_model.     *)
(* Every user interaction reruns the script top to bottom; a run is a      *)
(* sequence of steps (pc) that ends either at the bottom of the script or  *)
(* at the statement that raised.  The fetch/deserialisation and the        *)
(* predictor are external: their outcome is a nondeterministic choice.     *)
(*                                                                         *)
(* Emission values are integers on a grid of Scale steps per g/km, so that *)
(* 99.9, 142.3, 100.25 ... are all grid points.                             *)
(***************************************************************************)
EXTENDS Integers, Sequences, FiniteSets

\* ------------------------------------------------------------------ bounds
\* half-width, in grid steps, of the windows of predictor outputs that are
\* explored around each threshold
Window == 10
\* cap of the fetch counter
MaxFetch == 3

\* ------------------------------------------------------- program constants
MinYear == 1985
MaxYear == 2025
DefaultYear == 2018
MinKms == 0
MaxKms == 500000
DefaultKms == 50000
SmallestCC == 1000
LargestCC == 5000
DefaultCC == 2000
LowLimit == 100
ModerateLimit == 180
TipsLimit == 150
SmallPetrolCar == 120
AverageDieselCar == 150
SUV == 200

\* grid steps per displayed tenth (4) times tenths per g/km (10)
Scale == 4 * 10
TenthSteps == Scale \div 10

FuelTypes == {"Petrol", "Diesel", "Hybrid", "Electric"}
TransmissionTypes == {"Manual", "Automatic"}
ModelYears == {MinYear, DefaultYear, MaxYear}
KmsValues == {MinKms, DefaultKms, MaxKms}
EngineSizes == {SmallestCC, DefaultCC, LargestCC}

\* A double is never exactly half way between two tenths unless it is a
\* multiple of 1/8 (x.25, x.75): the other x.x5 grid points are not values a
\* float can hold, so the predictor cannot return them.
Representable(p) == (p % TenthSteps # 2) \/ (p % (Scale \div 2) = Scale \div 4)

\* the predictor outputs explored
PredValues ==
    { p \in { t * Scale + d : t \in {LowLimit, TipsLimit, ModerateLimit},
                              d \in (0 - Window)..Window }
              \cup {0, 1423 * TenthSteps, 2107 * TenthSteps} :
      Representable(p) }

VARIABLES
    cached,        \* st.cache_resource holds a value for load_model()
    model,         \* module-level `model`: "Predictor" or "None"
    fetchCount,    \* times the body of load_model ran (fetch + deserialise)
    pc,            \* position of the current script run
    form,          \* the five widget values read by this run
    submitted,     \* value of form_submit_button in this run
    input_data,    \* the feature record handed to predict, or NoInput
    prediction,    \* value returned by predict in this run, or -1
    predictCalls,  \* invocations of model.predict in this run
    fault,         \* unhandled exception that ended this run, or "none"
    out,           \* what this run rendered
    hadFault       \* history: an earlier run of this process faulted

vars == <<cached, model, fetchCount, pc, form, submitted, input_data,
          prediction, predictCalls, fault, out, hadFault>>

NoHeadline == [icon |-> "none", value |-> -1, color |-> "none", message |-> "none"]

EmptyOut == [error |-> FALSE, heading |-> FALSE, headline |-> NoHeadline,
             chart |-> <<>>, palette |-> <<>>, tips |-> FALSE, panels |-> FALSE]

NoInput == [Model_Year |-> 0, Fuel_Type |-> "none", KMs_Driven |-> 0,
            Engine_CC |-> 0, Transmission_Type |-> "none"]

DefaultForm == [model_year |-> DefaultYear, fuel_type |-> "Petrol",
                kms_driven |-> DefaultKms, engine_cc |-> DefaultCC,
                transmission |-> "Manual"]

Forms == [model_year : ModelYears, fuel_type : FuelTypes, kms_driven : KmsValues,
          engine_cc : EngineSizes, transmission : TransmissionTypes]

Init ==
    /\ cached = FALSE
    /\ model = "None"
    /\ fetchCount = 0
    /\ pc = "start"
    /\ form = DefaultForm
    /\ submitted = FALSE
    /\ input_data = NoInput
    /\ prediction = -1
    /\ predictCalls = 0
    /\ fault = "none"
    /\ out = EmptyOut
    /\ hadFault = FALSE

\* ------------------------------------------------------------ pure helpers

\* pd.DataFrame({...}) of one row built from the five widget values
InputData(f) ==
    [Model_Year |-> f.model_year, Fuel_Type |-> f.fuel_type,
     KMs_Driven |-> f.kms_driven, Engine_CC |-> f.engine_cc,
     Transmission_Type |-> f.transmission]

\* a formatting that cuts the digits after the first decimal instead
Format1Trunc(p) == p \div TenthSteps

\* f"{prediction:.1f}": round to the nearest tenth, ties to even; the result
\* is the number of tenths shown
Format1(p) ==
    LET q == p \div TenthSteps
        r == p % TenthSteps
    IN  IF 2 * r < TenthSteps THEN q
        ELSE IF 2 * r > TenthSteps THEN q + 1
        ELSE IF q % 2 = 0 THEN q ELSE q + 1

\* the tiers with the boundaries closed on the wrong side
EmissionTierOffByOne(p) ==
    IF p <= LowLimit * Scale THEN "Low Emissions"
    ELSE IF p <= ModerateLimit * Scale THEN "Moderate Emissions"
    ELSE "High Emissions"

\* the if / elif / else on prediction
EmissionTier(p) ==
    IF p < LowLimit * Scale THEN "Low Emissions"
    ELSE IF p < ModerateLimit * Scale THEN "Moderate Emissions"
    ELSE "High Emissions"

emission_color(p) ==
    IF EmissionTier(p) = "Low Emissions" THEN "green"
    ELSE IF EmissionTier(p) = "Moderate Emissions" THEN "orange"
    ELSE "red"

emission_icon(p) ==
    IF EmissionTier(p) = "Low Emissions" THEN "check"
    ELSE IF EmissionTier(p) = "Moderate Emissions" THEN "warning"
    ELSE "cross"

\* the bars with the vehicle inserted by value instead of appended
comparison_data_sorted(p) ==
    << <<"Small Petrol Car", SmallPetrolCar * Scale>>,
       <<"Average Diesel Car", AverageDieselCar * Scale>>,
       <<"Your Vehicle", p>>,
       <<"SUV", SUV * Scale>> >>

\* comparison_data: labels and values of the bar plot, in dictionary order
comparison_data(p) ==
    << <<"Small Petrol Car", SmallPetrolCar * Scale>>,
       <<"Average Diesel Car", AverageDieselCar * Scale>>,
       <<"SUV", SUV * Scale>>,
       <<"Your Vehicle", p>> >>

palette(p) == <<"#1f77b4", "#1f77b4", "#1f77b4", emission_color(p)>>

\* the tips condition with the limit included
TipsAtLimit(p) == p >= TipsLimit * Scale

\* if prediction > 150
TipsCondition(p) == p > TipsLimit * Scale

\* the results branch taken without looking at the button
AlwaysSubmitted == TRUE

\* if submitted
FormSubmitted == submitted

\* ----------------------------------------------------------------- actions

\* A user interaction: the script is rerun with the widget values of the
\* interaction; the page of the previous run is replaced.
Rerun ==
    /\ pc \in {"start", "done"}
    /\ \E f \in Forms, s \in BOOLEAN :
          /\ form' = f
          /\ submitted' = s
    /\ pc' = "load_model"
    /\ input_data' = NoInput
    /\ prediction' = -1
    /\ predictCalls' = 0
    /\ hadFault' = (hadFault \/ fault # "none")
    /\ fault' = "none"
    /\ out' = EmptyOut
    /\ UNCHANGED <<cached, model, fetchCount>>

\* model = load_model(), no cache entry: urlretrieve and joblib.load succeed.
\* (The outcome of the two library calls is the environment's choice.  As
\* written the call passes the bare file name, not `url`, to urlretrieve,
\* which CPython's urllib rejects with ValueError: with that library only
\* LoadModelFailed happens.)
LoadModelFetched ==
    /\ pc = "load_model"
    /\ ~cached
    /\ fetchCount < MaxFetch
    /\ fetchCount' = fetchCount + 1
    /\ cached' = TRUE
    /\ model' = "Predictor"
    /\ pc' = "form"
    /\ UNCHANGED <<form, submitted, input_data, prediction, predictCalls,
                   fault, out, hadFault>>

\* model = load_model(), no cache entry: the try block raises; st.error, None
LoadModelFailed ==
    /\ pc = "load_model"
    /\ ~cached
    /\ fetchCount < MaxFetch
    /\ fetchCount' = fetchCount + 1
    /\ cached' = TRUE
    /\ model' = "None"
    /\ out' = [out EXCEPT !.error = TRUE]
    /\ pc' = "form"
    /\ UNCHANGED <<form, submitted, input_data, prediction, predictCalls,
                   fault, hadFault>>

\* load_model without the cache decorator: the body runs again in every run
LoadModelRefetch ==
    /\ pc = "load_model"
    /\ cached
    /\ fetchCount < MaxFetch
    /\ fetchCount' = fetchCount + 1
    /\ \E m \in {"Predictor", "None"} :
          /\ model' = m
          /\ out' = [out EXCEPT !.error = (m = "None")]
    /\ pc' = "form"
    /\ UNCHANGED <<cached, form, submitted, input_data, prediction,
                   predictCalls, fault, hadFault>>

\* model = load_model(), cache entry present (@st.cache_resource): the body
\* does not run; the cached value is returned and the st.error recorded with
\* a cached None is replayed
LoadModelCached ==
    /\ pc = "load_model"
    /\ cached
    /\ out' = [out EXCEPT !.error = (model = "None")]
    /\ pc' = "form"
    /\ UNCHANGED <<cached, model, fetchCount, form, submitted, input_data,
                   prediction, predictCalls, fault, hadFault>>

\* header, sidebar, the form in col1 and the "Prediction Results" subheader
RenderForm ==
    /\ pc = "form"
    /\ out' = [out EXCEPT !.heading = TRUE]
    /\ pc' = "results"
    /\ UNCHANGED <<cached, model, fetchCount, form, submitted, input_data,
                   prediction, predictCalls, fault, hadFault>>

\* `if submitted:` is false: nothing is rendered under the subheader
NotSubmitted ==
    /\ pc = "results"
    /\ ~FormSubmitted
    /\ pc' = "panels"
    /\ UNCHANGED <<cached, model, fetchCount, form, submitted, input_data,
                   prediction, predictCalls, fault, out, hadFault>>

\* `if submitted:` is true: input_data = pd.DataFrame({...})
BuildInput ==
    /\ pc = "results"
    /\ FormSubmitted
    /\ input_data' = InputData(form)
    /\ pc' = "predict"
    /\ UNCHANGED <<cached, model, fetchCount, form, submitted, prediction,
                   predictCalls, fault, out, hadFault>>

\* a failure handler that drops the cache entry so that the next run retries
PredictAbsentEvicts ==
    /\ pc = "predict"
    /\ model = "None"
    /\ fault' = "AttributeError"
    /\ cached' = FALSE
    /\ pc' = "done"
    /\ UNCHANGED <<model, fetchCount, form, submitted, input_data,
                   prediction, predictCalls, out, hadFault>>

\* model.predict(input_data) with model = None: AttributeError, nothing
\* catches it, the run ends at this statement
PredictAbsent ==
    /\ pc = "predict"
    /\ model = "None"
    /\ fault' = "AttributeError"
    /\ pc' = "done"
    /\ UNCHANGED <<cached, model, fetchCount, form, submitted, input_data,
                   prediction, predictCalls, out, hadFault>>

\* prediction = model.predict(input_data)[0]: the predictor returns a number
PredictReturns ==
    /\ pc = "predict"
    /\ model = "Predictor"
    /\ \E v \in PredValues : prediction' = v
    /\ predictCalls' = predictCalls + 1
    /\ pc' = "display"
    /\ UNCHANGED <<cached, model, fetchCount, form, submitted, input_data,
                   fault, out, hadFault>>

\* model.predict(input_data) raises (the record does not match the columns
\* the artifact was trained with): nothing catches it, the run ends
PredictRaises ==
    /\ pc = "predict"
    /\ model = "Predictor"
    /\ predictCalls' = predictCalls + 1
    /\ fault' = "PredictError"
    /\ pc' = "done"
    /\ UNCHANGED <<cached, model, fetchCount, form, submitted, input_data,
                   prediction, out, hadFault>>

\* if fuel_type == "Electric": st.success("## 0 g/km") and the fixed message
DisplayElectric ==
    /\ pc = "display"
    /\ form.fuel_type = "Electric"
    /\ out' = [out EXCEPT !.headline =
                  [icon |-> "tada", value |-> 0, color |-> "success",
                   message |-> "Electric vehicles produce zero direct CO2 emissions!"]]
    /\ pc' = "panels"
    /\ UNCHANGED <<cached, model, fetchCount, form, submitted, input_data,
                   prediction, predictCalls, fault, hadFault>>

\* else: tier, headline, comparison chart and, above the limit, the tips
DisplayTiered ==
    /\ pc = "display"
    /\ form.fuel_type # "Electric"
    /\ out' = [out EXCEPT
                  !.headline = [icon |-> emission_icon(prediction),
                                value |-> Format1(prediction),
                                color |-> emission_color(prediction),
                                message |-> EmissionTier(prediction)],
                  !.chart = comparison_data(prediction),
                  !.palette = palette(prediction),
                  !.tips = TipsCondition(prediction)]
    /\ pc' = "panels"
    /\ UNCHANGED <<cached, model, fetchCount, form, submitted, input_data,
                   prediction, predictCalls, fault, hadFault>>

\* "Understanding Your Results": the three reference columns and the styling
StaticPanels ==
    /\ pc = "panels"
    /\ out' = [out EXCEPT !.panels = TRUE]
    /\ pc' = "done"
    /\ UNCHANGED <<cached, model, fetchCount, form, submitted, input_data,
                   prediction, predictCalls, fault, hadFault>>

Next ==
    \/ Rerun
    \/ LoadModelFetched
    \/ LoadModelFailed
    \/ LoadModelCached
    \/ RenderForm
    \/ NotSubmitted
    \/ BuildInput
    \/ PredictAbsent
    \/ PredictReturns
    \/ PredictRaises
    \/ DisplayElectric
    \/ DisplayTiered
    \/ StaticPanels

Spec == Init /\ [][Next]_vars

\* ------------------------------------------------------------------ claims

\* the submitted branch ran to its end: a result is on the page
ResultShown == submitted /\ fault = "none" /\ pc \in {"panels", "done"}

\* C1: for every submitted Electric request the displayed estimate is exactly
\* 0 g/km and predict is not invoked at any point of the interaction.
C1_ElectricNeverPredicts ==
    (submitted /\ form.fuel_type = "Electric") =>
        /\ predictCalls = 0
        /\ pc = "done" => (out.headline.icon = "tada" /\ out.headline.value = 0)

\* C2: if the fetch or the deserialisation threw, the error is shown, the
\* predictor is absent, and a later submission (any fuel type) ends in a
\* reported graceful failure, never in an unhandled fault.
C2_AbsentModelFailsGracefully ==
    (cached /\ model = "None" /\ submitted /\ pc = "done") =>
        (out.error /\ fault = "none")

\* C3: for a non-Electric result the tier follows the estimate with
\* closed/open boundaries: below 100 Low/green, from 100 to below 180
\* Moderate/orange, from 180 High/red; 99.9 is Low, 100.0 and 179.9 are
\* Moderate, 180.0 is High; exactly one tier is chosen.
C3_TierBoundaries ==
    (ResultShown /\ form.fuel_type # "Electric") =>
        LET p == prediction
            h == out.headline
            low == h.message = "Low Emissions" /\ h.color = "green" /\ h.icon = "check"
            mod == h.message = "Moderate Emissions" /\ h.color = "orange" /\ h.icon = "warning"
            high == h.message = "High Emissions" /\ h.color = "red" /\ h.icon = "cross"
        IN  /\ (p < 100 * Scale) => low
            /\ (100 * Scale <= p /\ p < 180 * Scale) => mod
            /\ (p >= 180 * Scale) => high
            /\ (p = 999 * TenthSteps) => low
            /\ (p = 1000 * TenthSteps \/ p = 1799 * TenthSteps) => mod
            /\ (p = 1800 * TenthSteps) => high
            /\ out.palette[4] = h.color

C3_Witness ==
    /\ ResultShown
    /\ form.fuel_type = "Diesel"
    /\ prediction = 1799 * TenthSteps
    /\ out.headline.message = "Moderate Emissions"

\* C4: for every result the tips block is rendered if and only if the
\* estimate is strictly greater than 150 and the fuel type is not Electric.
C4_TipsIff ==
    ResultShown =>
        (out.tips <=> (prediction > 150 * Scale /\ form.fuel_type # "Electric"))

C4_Witness ==
    /\ ResultShown
    /\ form.fuel_type = "Hybrid"
    /\ prediction = 150 * Scale + 1
    /\ out.tips

\* C5: for a non-Electric result the estimate displayed is the value the
\* single predict call returned for the record built from the five form
\* values; only the headline is formatted, to the nearest tenth.
C5_RawPrediction ==
    (ResultShown /\ form.fuel_type # "Electric") =>
        /\ predictCalls = 1
        /\ input_data = [Model_Year |-> form.model_year,
                         Fuel_Type |-> form.fuel_type,
                         KMs_Driven |-> form.kms_driven,
                         Engine_CC |-> form.engine_cc,
                         Transmission_Type |-> form.transmission]
        /\ out.chart[4][2] = prediction
        /\ 2 * (out.headline.value * TenthSteps - prediction) <= TenthSteps
        /\ 2 * (prediction - out.headline.value * TenthSteps) <= TenthSteps

C5_Witness ==
    /\ ResultShown
    /\ form.fuel_type = "Petrol"
    /\ form.model_year = MaxYear
    /\ prediction = 100 * Scale + 3
    /\ out.headline.value = 1001
    /\ out.chart[4][2] = 100 * Scale + 3

\* C6: every comparison chart rendered has exactly 4 bars, in the order
\* Small Petrol Car 120, Average Diesel Car 150, SUV 200, Your Vehicle the
\* current estimate.
C6_ChartBars ==
    (out.chart # <<>>) =>
        /\ Len(out.chart) = 4
        /\ out.chart[1] = <<"Small Petrol Car", 120 * Scale>>
        /\ out.chart[2] = <<"Average Diesel Car", 150 * Scale>>
        /\ out.chart[3] = <<"SUV", 200 * Scale>>
        /\ out.chart[4] = <<"Your Vehicle", prediction>>

C6_Witness ==
    /\ pc = "done"
    /\ Len(out.chart) = 4
    /\ out.chart[4] = <<"Your Vehicle", 2107 * TenthSteps>>

\* C7: the artifact is fetched and deserialised at most once per process:
\* once load_model has completed, with a predictor or with None, no later
\* run fetches again and the cached reference never changes.
C7_FetchedAtMostOnce ==
    /\ [](fetchCount <= 1)
    /\ [][cached => (cached' /\ model' = model /\ fetchCount' = fetchCount)]_vars

C7_Witness ==
    /\ pc = "form"
    /\ hadFault
    /\ cached
    /\ model = "None"
    /\ fetchCount = 1

\* C8: the static reference panels are rendered in every interaction,
\* whether or not the model loaded or the prediction step succeeded.
C8_PanelsAlways == (pc = "done") => out.panels

\* what a finished run shows, from this run's inputs and the cached model only
ExpectedOut ==
    LET base == [EmptyOut EXCEPT !.error = (model = "None"), !.heading = TRUE]
    IN  IF ~submitted THEN [base EXCEPT !.panels = TRUE]
        ELSE IF fault # "none" THEN base
        ELSE IF form.fuel_type = "Electric"
             THEN [base EXCEPT !.panels = TRUE,
                      !.headline = [icon |-> "tada", value |-> 0, color |-> "success",
                          message |-> "Electric vehicles produce zero direct CO2 emissions!"]]
        ELSE [base EXCEPT !.panels = TRUE,
                 !.headline = [icon |-> emission_icon(prediction),
                               value |-> Format1(prediction),
                               color |-> emission_color(prediction),
                               message |-> EmissionTier(prediction)],
                 !.chart = comparison_data(prediction),
                 !.palette = palette(prediction),
                 !.tips = TipsCondition(prediction)]

\* C9: a failure ends its own interaction only and changes no state: the
\* cached model reference is untouched by it, and what a later run shows
\* depends on that run's form values, the cached model and the predictor's
\* answer in that run, not on earlier submissions or failures.
C9_NoCarryOver ==
    /\ []((pc = "done") =>
            /\ out = ExpectedOut
            /\ (model = "None" /\ submitted) => fault = "AttributeError"
            /\ (model = "Predictor" \/ ~submitted) => fault \in {"none", "PredictError"}
            /\ input_data = (IF submitted THEN InputData(form) ELSE NoInput))
    /\ [][(fault = "none" /\ fault' # "none") =>
            (cached' = cached /\ model' = model /\ fetchCount' = fetchCount)]_vars

C9_Witness ==
    /\ pc = "done"
    /\ hadFault
    /\ submitted
    /\ fault = "none"
    /\ form.fuel_type = "Petrol"
    /\ out.tips

\* C10: when the form was not submitted, predict is not invoked and no
\* estimate, tier message, chart or tips block is rendered; the results pane
\* shows only its heading.
C10_NotSubmittedShowsNothing ==
    (~submitted) =>
        /\ predictCalls = 0
        /\ prediction = -1
        /\ out.headline = NoHeadline
        /\ out.chart = <<>>
        /\ ~out.tips
        /\ (pc = "done") => out.heading

C10_Witness ==
    /\ pc = "done"
    /\ ~submitted
    /\ model = "Predictor"
    /\ out.heading
    /\ out.panels

====
